---- MODULE Spec2Model ----
(***************************************************************************)
(* Model of the terminal search-and-preview application (src/src/index.tsx, *)
(* lines 140-479: the App and FilePreview components).                      *)
(*                                                                          *)
(* JavaScript strings are sequences of one-character strings.  A nullable   *)
(* value (string | null, number | null, string | undefined) is the empty    *)
(* sequence for null/undefined and a one-element sequence for a value.      *)
(***************************************************************************)
EXTENDS Integers, Sequences, FiniteSets, TLC

VARIABLES
    query,              \* App state: query (297)
    selectedFile,       \* App state: selectedFile (298), nullable path
    matchingFiles,      \* App state: matchingFiles (299), sequence of paths
    selectedIndex,      \* App state: selectedIndex (300), 0-based
    searchMode,         \* App state: searchMode (301)
    isFocused,          \* App state: isFocused (302)
    inflight,           \* spawned fzf / rg processes whose 'close' has not fired, in spawn order
    crashed,            \* an 'error' event was emitted with no listener (process ended)
    content,            \* FilePreview state: content (161)
    matchingLineIndex,  \* FilePreview state: matchingLineIndex (162), nullable
    load,               \* the effect run (166-244) whose stream is still being read, nullable
    shown,              \* what FilePreview renders (283-290), nullable (not mounted)
    fs,                 \* the files of the working tree: path -> lines
    latest,             \* history: the most recently issued search request and its parsed result
    last                \* history: the event handled by the last step

vars == <<query, selectedFile, matchingFiles, selectedIndex, searchMode, isFocused,
          inflight, crashed, content, matchingLineIndex, load, shown, fs, latest, last>>

appVars == <<query, selectedFile, matchingFiles, selectedIndex, searchMode, isFocused>>
previewVars == <<content, matchingLineIndex, load, shown>>

----------------------------------------------------------------------------
(* Bounds of the model *)

MaxInFlight == 2        \* search subprocesses alive at once
MaxOutLen == 8          \* length of the raw backend output in SpecParse
MaxFileLen == 122       \* lines of the file read in SpecLoad
MaxBufLen == 45         \* lines of the file read over a left-over match index in SpecLoad

----------------------------------------------------------------------------
(* Constants of the program *)

MAX_LINES == 100
contextLines == 20
visibleLines == 40

----------------------------------------------------------------------------
(* Values *)

None == <<>>
Some(v) == <<v>>

Truthy(s) == s # <<>>          \* JS truthiness of a string

Modes == {"filename", "content"}

PathX == <<"x">>
PathY == <<"y">>

\* Values the text input can take
Queries == { <<>>, <<"a">> }

\* Raw stdout of the name matcher: newline-delimited ranked paths
FzfOutputs == { <<>>, <<"x", "\n">>, <<"y", "\n", "x", "\n">> }

\* Raw stdout of the content matcher: lines <path>:<rest>
RgOutputs == { <<>>,
               <<"x", ":", "a", "\n">>,
               <<"x", ":", "a", "\n", "y", ":", "a", "\n", "x", ":", "b", "\n">> }

\* The working tree of Spec
WorkingTree ==
    (PathX :> << <<"A">>, <<"b">> >>) @@ (PathY :> << <<"b">>, <<"B", "b">> >>)

\* Lines of a file of the working tree
FileLines(path) == IF path \in DOMAIN fs THEN fs[path] ELSE << >>

Abs(a) == IF a >= 0 THEN a ELSE -a

Max(a, b) == IF a >= b THEN a ELSE b
Min(a, b) == IF a <= b THEN a ELSE b

\* Mutant: the 'close' that leaves its request in flight
RemoveNothing(s, i) == s

Remove(s, i) == SubSeq(s, 1, i - 1) \o SubSeq(s, i + 1, Len(s))

----------------------------------------------------------------------------
(* String helpers (String.prototype.split, includes, toLowerCase, Array filter) *)

\* The k-th smallest element of a set of numbers
KthOf(P, k) == CHOOSE p \in P : Cardinality({q \in P : q < p}) = k - 1

\* s.split(sep) for a one-character separator
Split(s, sep) ==
    LET P == {i \in 1..Len(s) : s[i] = sep}
        n == Cardinality(P)
    IN  [k \in 1..(n + 1) |->
            SubSeq(s, IF k = 1 THEN 1 ELSE KthOf(P, k - 1) + 1,
                      IF k = n + 1 THEN Len(s) ELSE KthOf(P, k) - 1)]

\* self.indexOf(v), 1-based; 0 when absent
IndexOf(self, v) ==
    IF \E i \in 1..Len(self) : self[i] = v
    THEN CHOOSE i \in 1..Len(self) : self[i] = v /\ \A j \in 1..(i - 1) : self[j] # v
    ELSE 0

\* the elements of s whose index is in keep, in order
AtIndices(s, keep) ==
    LET K == keep \cap (1..Len(s))
    IN  [k \in 1..Cardinality(K) |-> s[KthOf(K, k)]]

ToLowerChar(c) == IF c = "A" THEN "a" ELSE IF c = "B" THEN "b" ELSE c
ToLower(s) == [i \in 1..Len(s) |-> ToLowerChar(s[i])]

Includes(s, t) == \E i \in 0..(Len(s) - Len(t)) : SubSeq(s, i + 1, i + Len(t)) = t

----------------------------------------------------------------------------
(* Parsing of backend output *)

\* output.split('\n').filter(Boolean)
ParseFzf(output) == SelectSeq(Split(output, "\n"), Truthy)

\* const [file] = line.split(':')
LeadingPath(line) == Split(line, ":")[1]

\* Mutant: the last occurrence of each path is kept instead of the first
DedupKeepLast(self) ==
    AtIndices(self, {i \in 1..Len(self) : \A j \in (i + 1)..Len(self) : self[j] # self[i]})

\* .filter((file, index, self) => self.indexOf(file) === index)
DedupKeepFirst(self) == AtIndices(self, {i \in 1..Len(self) : IndexOf(self, self[i]) = i})

\* output.split('\n').filter(Boolean).map(...).filter(...)
ParseRg(output) ==
    LET lines == SelectSeq(Split(output, "\n"), Truthy)
        files == [i \in 1..Len(lines) |-> LeadingPath(lines[i])]
    IN  DedupKeepFirst(files)

----------------------------------------------------------------------------
(* FilePreview *)

EmptyContent == [kind |-> "empty", file |-> None, term |-> None, lines |-> <<>>, marker |-> FALSE]

\* searchTerm={searchMode === 'content' ? query : undefined}
SearchTerm(mode, q) == IF mode = "content" THEN Some(q) ELSE None

\* {selectedFile && <FilePreview ... />}
PreviewMounted(sf) == sf # None /\ Truthy(sf[1])

\* firstMatchIndex after every line of the file has been seen
FirstMatchIndex(lines, term) ==
    LET hits == {i \in 1..Len(lines) :
                    /\ term # None
                    /\ Truthy(term[1])
                    /\ Includes(ToLower(lines[i]), ToLower(term[1]))}
    IN  IF hits = {} THEN None
        ELSE Some((CHOOSE i \in hits : \A j \in hits : i <= j) - 1)

\* The effect's locals before the first line is read
ReaderStart == [lines |-> <<>>, firstMatchIndex |-> None, lineNumber |-> 0]

\* Mutant: the handler without the MAX_LINES cap
OnLineUncapped(st, line, term) ==
    LET fm == IF /\ term # None
                 /\ Truthy(term[1])
                 /\ st.firstMatchIndex = None
                 /\ Includes(ToLower(line), ToLower(term[1]))
              THEN Some(st.lineNumber)
              ELSE st.firstMatchIndex
        ln == st.lineNumber + 1
        keep == fm # None => Abs(ln - fm[1]) <= contextLines
    IN  [lines |-> IF keep THEN Append(st.lines, line) ELSE st.lines,
         firstMatchIndex |-> fm,
         lineNumber |-> ln]

\* rl.on('line'): the effect's locals after one line
OnLine(st, line, term) ==
    LET fm == IF /\ term # None
                 /\ Truthy(term[1])
                 /\ st.firstMatchIndex = None
                 /\ Includes(ToLower(line), ToLower(term[1]))
              THEN Some(st.lineNumber)
              ELSE st.firstMatchIndex
        ln == st.lineNumber + 1
        keep == IF fm # None
                THEN Abs(ln - fm[1]) <= contextLines
                ELSE Len(st.lines) < MAX_LINES
    IN  [lines |-> IF keep THEN Append(st.lines, line) ELSE st.lines,
         firstMatchIndex |-> fm,
         lineNumber |-> ln]

\* The effect's locals once lines lo..hi of the file are read, one after the
\* other (the range is halved, and the first half evaluated before the second
\* is entered, to keep the evaluation shallow)
RECURSIVE ReadRange(_, _, _, _, _)
ReadRange(st, file, lo, hi, term) ==
    IF lo > hi THEN st
    ELSE IF lo = hi THEN OnLine(st, file[lo], term)
    ELSE LET mid == (lo + hi) \div 2
             half == ReadRange(st, file, lo, mid, term)
         IN  IF half.lineNumber >= 0
             THEN ReadRange(half, file, mid + 1, hi, term)
             ELSE half

\* The effect's locals at end of file
ReadAll(l) == ReadRange(ReaderStart, FileLines(l.file), 1, Len(FileLines(l.file)), l.term)

\* The content set by rl.on('close'): the text is kept as its lines (no line
\* holds a newline, so join, highlight and the marker keep them apart); marker
\* is the trailing '\n...'
Loaded(kind, l, st) ==
    [kind |-> kind, file |-> Some(l.file), term |-> l.term,
     lines |-> st.lines, marker |-> Len(st.lines) >= MAX_LINES]

\* Mutant: the handler without its isMounted guard
OnRlCloseUnguarded(isMounted, l, hlOk, c, m) ==
    LET st == ReadAll(l)
    IN  IF hlOk
        THEN <<Loaded("highlighted", l, st), st.firstMatchIndex>>
        ELSE <<Loaded("raw", l, st), m>>

\* Mutant: the handler whose catch branch sets no content
OnRlCloseNoFallback(isMounted, l, hlOk, c, m) ==
    LET st == ReadAll(l)
    IN  IF ~isMounted THEN <<c, m>>
        ELSE IF hlOk
             THEN <<Loaded("highlighted", l, st), st.firstMatchIndex>>
             ELSE <<c, m>>

\* rl.on('close'): <<content, matchingLineIndex>> after the handler
OnRlClose(isMounted, l, hlOk, c, m) ==
    LET st == ReadAll(l)
    IN  IF ~isMounted THEN <<c, m>>
        ELSE IF hlOk
             THEN <<Loaded("highlighted", l, st), st.firstMatchIndex>>
             ELSE <<Loaded("raw", l, st), m>>

\* Mutant: the handler without setContent
OnStreamErrorKeeps(isMounted, l, c) == c

\* readStream.on('error'): content after the handler
OnStreamError(isMounted, l, c) ==
    IF ~isMounted THEN c
    ELSE [kind |-> "unable", file |-> Some(l.file), term |-> l.term,
          lines |-> <<>>, marker |-> FALSE]

UnableText == <<"U", "n", "a", "b", "l", "e">>
Ellipsis == <<".", ".", ".">>

\* content.split('\n')
ContentLines(c) ==
    IF c.kind = "unable" THEN <<UnableText>>
    ELSE (IF c.lines = <<>> THEN << <<>> >> ELSE c.lines)
         \o (IF c.marker THEN <<Ellipsis>> ELSE <<>>)

\* Mutant: the window without its upper limit
GetVisibleContentWhole(lines, matchIndex) ==
    [prefix |-> FALSE, lines |-> lines, suffix |-> FALSE]

\* getVisibleContent: prefix + visibleContent + suffix, the text kept as lines
GetVisibleContent(lines, matchIndex) ==
    IF matchIndex = None THEN [prefix |-> FALSE, lines |-> lines, suffix |-> FALSE]
    ELSE LET safeMatchIndex == Min(matchIndex[1], Len(lines) - 1)
             startLine == Max(0, safeMatchIndex - (visibleLines \div 2))
             endLine == Min(Len(lines), startLine + visibleLines)
         IN  [prefix |-> startLine > 0,
              lines  |-> SubSeq(lines, startLine + 1, endLine),
              suffix |-> endLine < Len(lines)]

\* What FilePreview renders for the state c, m
Shown(mounted, c, m) ==
    IF mounted THEN Some(GetVisibleContent(ContentLines(c), m)) ELSE None

\* The FilePreview part of a render of App with new props.  Unmounting discards
\* the component's state; a change of filePath or searchTerm runs the effect's
\* cleanup (isMounted = false; rl.close(), which emits 'close' at once if the
\* stream was still being read; readStream.destroy(), after which the stream
\* emits nothing more) and then the effect again.
Render(sf2, term2) ==
    LET was == PreviewMounted(selectedFile)
        now == PreviewMounted(sf2)
        same == sf2 = selectedFile /\ term2 = SearchTerm(searchMode, query)
    IN  IF (was /\ now /\ same) \/ (~was /\ ~now)
        THEN UNCHANGED previewVars
        ELSE /\ load' = IF now
                        THEN Some([file |-> sf2[1], term |-> term2,
                                   over |-> was /\ load # None])
                        ELSE None
             /\ \E hlOk \in BOOLEAN :
                   LET closed == IF load = None THEN <<content, matchingLineIndex>>
                                 ELSE OnRlClose(FALSE, load[1], hlOk, content, matchingLineIndex)
                   IN  /\ content' = IF was /\ now THEN closed[1] ELSE EmptyContent
                       /\ matchingLineIndex' = IF was /\ now THEN closed[2] ELSE None
                       /\ shown' = Shown(now, content', matchingLineIndex')

----------------------------------------------------------------------------
(* App *)

\* useEffect(() => { if (matchingFiles[selectedIndex]) setSelectedFile(...) })
SyncSelectedFile(mf, si, sf) ==
    IF si >= 0 /\ si < Len(mf) /\ Truthy(mf[si + 1]) THEN Some(mf[si + 1]) ELSE sf

\* fzf.on('close'): the App state the handler sets
FzfOnClose(output, sf) ==
    LET matches == ParseFzf(output)
    IN  [matchingFiles |-> matches,
         selectedIndex |-> 0,
         selectedFile  |-> IF Len(matches) > 0 THEN Some(matches[1]) ELSE sf]

\* Mutant: the handler without setSelectedIndex(0)
RgOnCloseKeepsIndex(output, sf) ==
    LET matches == ParseRg(output)
    IN  [matchingFiles |-> matches,
         selectedIndex |-> selectedIndex,
         selectedFile  |-> IF Len(matches) > 0 THEN Some(matches[1]) ELSE None]

\* rg.on('close'): the App state the handler sets
RgOnClose(output, sf) ==
    LET matches == ParseRg(output)
    IN  [matchingFiles |-> matches,
         selectedIndex |-> 0,
         selectedFile  |-> IF Len(matches) > 0 THEN Some(matches[1]) ELSE None]

\* setSelectedIndex((prev) => Math.max(0, prev - 1))
IndexUp(prev) == Max(0, prev - 1)

\* Mutant: the down arrow without its clamp
IndexDownUnclamped(prev, mf) == prev + 1

\* setSelectedIndex((prev) => Math.min(matchingFiles.length - 1, prev + 1))
IndexDown(prev, mf) == Min(Len(mf) - 1, prev + 1)

\* What the backends can answer: the output collected on stdout, and whether the
\* subprocess failed (non-zero exit, or for rg a spawn error, which only logs)
FzfResponses == [out : FzfOutputs, failed : {FALSE}] \cup {[out |-> <<>>, failed |-> TRUE]}
RgResponses == [out : RgOutputs,  failed : {FALSE}] \cup {[out |-> <<>>, failed |-> TRUE]}

Ev(name) == [ev |-> name, out |-> <<>>, res |-> <<>>, failed |-> FALSE, pidx |-> 0, flag |-> FALSE]

NoRequest == [st |-> "none",    res |-> <<>>]
Pending == [st |-> "pending", res |-> <<>>]
Done(res) == [st |-> "done",    res |-> res]

Init ==
    /\ query = <<>>
    /\ selectedFile = None
    /\ matchingFiles = <<>>
    /\ selectedIndex = 0
    /\ searchMode = "content"
    /\ isFocused = TRUE
    /\ inflight = <<>>
    /\ crashed = FALSE
    /\ content = EmptyContent
    /\ matchingLineIndex = None
    /\ load = None
    /\ shown = None
    /\ fs = WorkingTree
    /\ latest = NoRequest
    /\ last = Ev("init")

\* handleInput(input), called by the focused TextInput when its value changes
Type(input) ==
    /\ ~crashed
    /\ isFocused
    /\ input # query
    /\ query' = input
    /\ UNCHANGED <<selectedFile, matchingFiles, selectedIndex, searchMode, isFocused, fs>>
    /\ IF searchMode = "filename"
       THEN \E spawned \in BOOLEAN :
               IF spawned
               THEN /\ Len(inflight) < MaxInFlight
                    /\ inflight' = Append(inflight, "filename")
                    /\ latest' = Pending
                    /\ UNCHANGED crashed
               ELSE \* spawn('fzf') emits 'error', which has no listener
                    /\ crashed' = TRUE
                    /\ UNCHANGED <<inflight, latest>>
       ELSE /\ Len(inflight) < MaxInFlight
            /\ inflight' = Append(inflight, "content")
            /\ latest' = Pending
            /\ UNCHANGED crashed
    /\ Render(selectedFile, SearchTerm(searchMode, input))
    /\ last' = Ev("type")

\* The App state after a 'close' handler and the render that follows it
ApplyResponse(i, r, set, parsed, name) ==
    \E sf2 \in {SyncSelectedFile(set.matchingFiles, set.selectedIndex, set.selectedFile)} :
        /\ matchingFiles' = set.matchingFiles
        /\ selectedIndex' = set.selectedIndex
        /\ selectedFile' = sf2
        /\ UNCHANGED <<query, searchMode, isFocused, crashed, fs>>
        /\ inflight' = Remove(inflight, i)
        /\ latest' = IF latest.st = "pending" /\ i = Len(inflight)
                     THEN Done(set.matchingFiles) ELSE latest
        /\ Render(sf2, SearchTerm(searchMode, query))
        /\ last' = [ev |-> name, out |-> r.out, res |-> parsed, failed |-> r.failed,
                    pidx |-> selectedIndex, flag |-> FALSE]

FzfCloseWith(i, r) ==
    /\ ~crashed
    /\ i \in DOMAIN inflight
    /\ inflight[i] = "filename"
    /\ \E set \in {FzfOnClose(r.out, selectedFile)} :
          ApplyResponse(i, r, set, ParseFzf(r.out), "fzfClose")

RgCloseWith(i, r) ==
    /\ ~crashed
    /\ i \in DOMAIN inflight
    /\ inflight[i] = "content"
    /\ \E set \in {RgOnClose(r.out, selectedFile)} :
          ApplyResponse(i, r, set, ParseRg(r.out), "rgClose")

FzfClose == \E i \in DOMAIN inflight : \E r \in FzfResponses : FzfCloseWith(i, r)

RgClose == \E i \in DOMAIN inflight : \E r \in RgResponses : RgCloseWith(i, r)

\* Mutant: the mode switch without setMatchingFiles([])
ModeSwitchKeepsResults(mode) ==
    [searchMode |-> mode, query |-> <<>>, matchingFiles |-> matchingFiles]

\* What Ctrl+N / Ctrl+F set
ModeSwitchSets(mode) == [searchMode |-> mode, query |-> <<>>, matchingFiles |-> <<>>]

\* useInput: Ctrl+N (filename) / Ctrl+F (content)
SwitchMode(mode) ==
    \E set \in {ModeSwitchSets(mode)} :
    \E sf2 \in {SyncSelectedFile(set.matchingFiles, selectedIndex, selectedFile)} :
        /\ ~crashed
        /\ searchMode' = set.searchMode
        /\ query' = set.query
        /\ matchingFiles' = set.matchingFiles
        /\ isFocused' = TRUE
        /\ selectedFile' = sf2
        /\ UNCHANGED <<selectedIndex, inflight, crashed, fs>>
        /\ latest' = NoRequest
        /\ Render(sf2, SearchTerm(set.searchMode, set.query))
        /\ last' = [Ev("switch") EXCEPT !.flag =
                        mode # searchMode /\ query # <<>> /\ matchingFiles # <<>>]

\* An arrow key: the new index, then the selection effect and the render
Navigate(si2, name) ==
    \E sf2 \in {SyncSelectedFile(matchingFiles, si2, selectedFile)} :
        /\ ~crashed
        /\ selectedIndex' = si2
        /\ selectedFile' = sf2
        /\ UNCHANGED <<query, matchingFiles, searchMode, isFocused, inflight, crashed, latest, fs>>
        /\ Render(sf2, SearchTerm(searchMode, query))
        /\ last' = [Ev(name) EXCEPT !.pidx = selectedIndex]

UpArrow == Navigate(IndexUp(selectedIndex), "up")

DownArrow == Navigate(IndexDown(selectedIndex, matchingFiles), "down")

\* key.return: the editor is spawned when a file is selected (no state is set);
\* the focused TextInput calls onSubmit, which sets isFocused to false
Return ==
    /\ ~crashed
    /\ isFocused' = FALSE
    /\ UNCHANGED <<query, selectedFile, matchingFiles, selectedIndex, searchMode,
                   inflight, crashed, latest, fs>>
    /\ UNCHANGED previewVars
    /\ last' = Ev("return")

\* rl 'close' of the current load: end of file
LoadClose ==
    /\ ~crashed
    /\ load # None
    /\ \E hlOk \in BOOLEAN :
          LET done == OnRlClose(TRUE, load[1], hlOk, content, matchingLineIndex)
          IN  /\ content' = done[1]
              /\ matchingLineIndex' = done[2]
              /\ last' = [Ev("loadClose") EXCEPT !.flag = load[1].over, !.failed = ~hlOk]
    /\ shown' = Shown(TRUE, content', matchingLineIndex')
    /\ load' = None
    /\ UNCHANGED <<inflight, crashed, latest, fs>>
    /\ UNCHANGED appVars

\* readStream 'error' of the current load
LoadError ==
    /\ ~crashed
    /\ load # None
    /\ content' = OnStreamError(TRUE, load[1], content)
    /\ shown' = Shown(TRUE, content', matchingLineIndex)
    /\ load' = None
    /\ UNCHANGED <<matchingLineIndex, inflight, crashed, latest, fs>>
    /\ UNCHANGED appVars
    /\ last' = [Ev("loadError") EXCEPT !.flag = load[1].over]

Next ==
    \/ \E input \in Queries : Type(input)
    \/ FzfClose
    \/ RgClose
    \/ \E mode \in Modes : SwitchMode(mode)
    \/ UpArrow
    \/ DownArrow
    \/ Return
    \/ LoadClose
    \/ LoadError

Spec == Init /\ [][Next]_vars

----------------------------------------------------------------------------
(* Parsing of arbitrary content-matcher output: one rg request is in flight  *)
(* and its 'close' delivers any output of at most MaxOutLen characters.      *)

Chars == {"x", "y", ":", "\n"}

\* The raw outputs of n characters
OutputsOfLen(n) == [1..n -> Chars]

InitParse ==
    /\ query = <<"a">>
    /\ selectedFile = None
    /\ matchingFiles = <<>>
    /\ selectedIndex = 0
    /\ searchMode = "content"
    /\ isFocused = TRUE
    /\ inflight = <<"content">>
    /\ crashed = FALSE
    /\ content = EmptyContent
    /\ matchingLineIndex = None
    /\ load = None
    /\ shown = None
    /\ fs = WorkingTree
    /\ latest = Pending
    /\ last = Ev("type")

RgCloseAny ==
    /\ inflight # <<>>
    /\ \E n \in 0..MaxOutLen : \E o \in OutputsOfLen(n) :
          RgCloseWith(1, [out |-> o, failed |-> FALSE])

NextParse == RgCloseAny

SpecParse == InitParse /\ [][NextParse]_vars

----------------------------------------------------------------------------
(* Loading of one file: the file x of the working tree is any file of at     *)
(* most MaxFileLen lines, selected and being read; the step is its 'close'.  *)

Digit == <<"0", "1", "2", "3", "4", "5", "6", "7", "8", "9">>

\* The text of line i (0-based): a letter, upper-case 'A' on the lines that
\* hold the term 'a', and the line's number
LineText(i, hit) ==
    <<IF hit THEN "A" ELSE "b",
      Digit[((i \div 100) % 10) + 1], Digit[((i \div 10) % 10) + 1], Digit[(i % 10) + 1]>>

\* The file of n lines whose lines with an index in hits hold the term
FileWith(n, hits) == [i \in 1..n |-> LineText(i - 1, (i - 1) \in hits)]

\* Where the term occurs in a file of n lines: nowhere, on one line, or on two
\* lines next to each other
HitSets(n) == {{}} \cup {{m} : m \in 0..(n - 1)} \cup {{m, m + 1} : m \in 0..(n - 2)}

\* FilePreview has just been mounted for x: filename mode (no searchTerm) or
\* content mode with the query 'a'
InitFresh ==
    /\ \E mode \in Modes : \E n \in 0..MaxFileLen :
        \E hits \in (IF mode = "content" THEN HitSets(n) ELSE {{}}) :
          /\ searchMode = mode
          /\ fs = (PathX :> FileWith(n, hits))
          /\ load = Some([file |-> PathX, term |-> SearchTerm(mode, <<"a">>), over |-> FALSE])
    /\ content = EmptyContent
    /\ matchingLineIndex = None
    /\ matchingFiles = <<PathX>>
    /\ selectedIndex = 0

\* FilePreview showed y before (a match index was set, then y could not be
\* read after the switch to filename mode) and x is selected now
InitLeftOver ==
    /\ \E n \in 0..MaxBufLen : \E m \in 0..MaxBufLen :
          /\ fs = (PathX :> FileWith(n, {}))
          /\ matchingLineIndex = Some(m)
    /\ searchMode = "filename"
    /\ load = Some([file |-> PathX, term |-> None, over |-> FALSE])
    /\ content = OnStreamError(TRUE, [file |-> PathY, term |-> None], EmptyContent)
    /\ matchingFiles = <<PathX>>
    /\ selectedIndex = 0

InitLoad ==
    /\ query = <<"a">>
    /\ selectedFile = Some(PathX)
    /\ isFocused = TRUE
    /\ inflight = <<>>
    /\ crashed = FALSE
    /\ latest = Done(<<PathX>>)
    /\ last = Ev("init")
    /\ InitFresh \/ InitLeftOver
    /\ shown = Shown(TRUE, content, matchingLineIndex)

NextLoad == LoadClose

SpecLoad == InitLoad /\ [][NextLoad]_vars

----------------------------------------------------------------------------
(* Properties *)

IsClose(e) == e.ev \in {"fzfClose", "rgClose"}

\* C1: once every issued request has completed, ResultList is the parsed output
\* of the request issued last, whatever the order of completion.
C1_LastQueryWins ==
    (inflight = <<>> /\ latest.st = "done") => matchingFiles = latest.res

\* The step is the 'close' of a request that was issued in the other mode
OldModeClose ==
    \E i \in DOMAIN inflight :
        inflight[i] # searchMode /\ inflight' = Remove(inflight, i)

\* C2: the late completion of a request issued in the old mode, arriving after
\* a mode switch, changes neither ResultList, SelectedIndex nor SelectedFile.
C2_OldModeResultDiscarded ==
    [][OldModeClose => UNCHANGED <<matchingFiles, selectedIndex, selectedFile>>]_vars

CurrentTerm == SearchTerm(searchMode, query)

PropsChange == selectedFile' # selectedFile \/ CurrentTerm' # CurrentTerm

\* C3: a load superseded by a change of the selected file or of the search term
\* writes neither content nor matchingLineIndex (the step that supersedes it
\* leaves both as they were, or resets them when the preview is remounted), and
\* once no load is in flight the content shown is the one loaded for the
\* current file and term.
C3_SupersededLoadNeverWrites ==
    /\ [](PreviewMounted(selectedFile) /\ load = None =>
            /\ content.kind # "empty"
            /\ content.file = selectedFile
            /\ content.term = CurrentTerm)
    /\ [][PropsChange =>
            \/ content' = content /\ matchingLineIndex' = matchingLineIndex
            \/ content' = EmptyContent /\ matchingLineIndex' = None]_vars

C3_Witness ==
    /\ last.ev = "loadClose"
    /\ last.flag
    /\ content.kind = "highlighted"
    /\ content.file = selectedFile
    /\ content.term = CurrentTerm

\* C4: the content displayed was loaded from the selected file, or is empty
\* while that file's load is in flight.
C4_NoStaleContentShown ==
    PreviewMounted(selectedFile) =>
        content.kind = "empty" \/ content.file = selectedFile

\* C5: after a replacement of ResultList (a response applied, a mode switch)
\* either the list is non-empty and SelectedIndex is within it, or the list is
\* empty and SelectedFile is absent.
C5_ClampOrAbsent ==
    (IsClose(last) \/ last.ev = "switch") =>
        IF matchingFiles # <<>>
        THEN 0 <= selectedIndex /\ selectedIndex < Len(matchingFiles)
        ELSE selectedFile = None

\* C6: a failed backend yields an empty ResultList and an absent SelectedFile,
\* and the failure never goes unhandled.
C6_BackendFailureHandled ==
    /\ ~crashed
    /\ (IsClose(last) /\ last.failed) => (matchingFiles = <<>> /\ selectedFile = None)

\* Start positions of the non-empty lines of a raw output
LineStarts(out) ==
    {p \in 1..Len(out) : out[p] # "\n" /\ (p = 1 \/ out[p - 1] = "\n")}

\* The text from position p up to the first ':' or the end of the line
PathAt(out, p) ==
    LET stop == {q \in p..Len(out) : out[q] \in {":", "\n"}}
        end  == IF stop = {} THEN Len(out) + 1
                ELSE CHOOSE q \in stop : \A r \in stop : q <= r
    IN  SubSeq(out, p, end - 1)

FirstStart(out, path) ==
    CHOOSE p \in LineStarts(out) :
        /\ PathAt(out, p) = path
        /\ \A q \in LineStarts(out) : PathAt(out, q) = path => p <= q

\* C7: the ResultList of a content-mode response holds each leading path of
\* the output once, in the order of first occurrence.
C7_DedupFirstSeenOrder ==
    last.ev = "rgClose" =>
        LET R == matchingFiles
            S == LineStarts(last.out)
        IN  /\ \A i, j \in 1..Len(R) : R[i] = R[j] => i = j
            /\ {R[i] : i \in 1..Len(R)} = {PathAt(last.out, p) : p \in S}
            /\ \A i, j \in 1..Len(R) :
                  i < j => FirstStart(last.out, R[i]) < FirstStart(last.out, R[j])

C7_Witness ==
    /\ last.ev = "rgClose"
    /\ Cardinality(LineStarts(last.out)) = 3
    /\ \A p \in LineStarts(last.out) :
          LET path == PathAt(last.out, p)
          IN  /\ path # <<>>
              /\ p + Len(path) <= Len(last.out)
              /\ last.out[p + Len(path)] = ":"
    /\ Len(matchingFiles) = 2
    /\ matchingFiles[1] # matchingFiles[2]

\* C8: a step that changes the mode also clears Query and ResultList, and the
\* mode is always one of the two modes.
C8_ModeSwitchAtomic ==
    /\ [](searchMode \in Modes)
    /\ [][searchMode' # searchMode => query' = <<>> /\ matchingFiles' = <<>>]_vars

C8_Witness ==
    /\ last.ev = "switch"
    /\ last.flag
    /\ query = <<>>
    /\ matchingFiles = <<>>

\* C9: SelectedFile is ResultList[SelectedIndex] when ResultList is non-empty
\* and absent when it is empty.
C9_SelectedFileDerived ==
    IF matchingFiles # <<>>
    THEN /\ 0 <= selectedIndex /\ selectedIndex < Len(matchingFiles)
         /\ selectedFile = Some(matchingFiles[selectedIndex + 1])
    ELSE selectedFile = None

\* C10: an applied response replaces ResultList by its parsed path list, sets
\* SelectedIndex to 0 and, when the list is non-empty, selects its first path.
C10_ResponseReplacesWholesale ==
    IsClose(last) =>
        /\ matchingFiles = last.res
        /\ selectedIndex = 0
        /\ matchingFiles # <<>> => selectedFile = Some(matchingFiles[1])

C10_Witness ==
    /\ IsClose(last)
    /\ last.pidx > 0
    /\ matchingFiles # <<>>
    /\ selectedIndex = 0

\* The step is an arrow key handled by useInput
NavStep == last'.ev \in {"up", "down"}

\* The index an arrow key asks for, clamped to the list
ClampedMove == Max(0, Min(Len(matchingFiles) - 1,
                          selectedIndex + (IF last'.ev = "up" THEN -1 ELSE 1)))

\* C11: with a non-empty ResultList an arrow key moves SelectedIndex by one,
\* clamped to the list, SelectedFile becomes ResultList[SelectedIndex], and when
\* the index moved a new load is started for that path.
C11_NavigateMovesSelection ==
    [][(NavStep /\ matchingFiles # <<>>) =>
          /\ selectedIndex' = ClampedMove
          /\ selectedFile' = Some(matchingFiles[selectedIndex' + 1])
          /\ selectedIndex' # selectedIndex =>
                /\ load' # None
                /\ load'[1].file = matchingFiles[selectedIndex' + 1]
                /\ load' # load]_vars

C11_Witness ==
    /\ last.ev = "down"
    /\ last.pidx = 0
    /\ selectedIndex = 1
    /\ selectedFile = Some(matchingFiles[2])
    /\ load # None
    /\ load[1].file = matchingFiles[2]

\* C11 as stated: every arrow key on a non-empty ResultList starts a new load
\* for ResultList[SelectedIndex], also when the index is clamped in place.
C11_NavigateAlwaysReloads ==
    [][(NavStep /\ matchingFiles # <<>>) =>
          /\ selectedIndex' = ClampedMove
          /\ selectedFile' = Some(matchingFiles[selectedIndex' + 1])
          /\ load' # None
          /\ load'[1].file = matchingFiles[selectedIndex' + 1]
          /\ load' # load]_vars

\* The query input takes keystrokes: focus={isFocused}
InputAcceptsText == isFocused

\* C12: Enter leaves the session state as it was: mode, Query, ResultList,
\* SelectedIndex, SelectedFile and the ability of the input to accept text.
C12_ActivateLeavesStateUnchanged ==
    [][(last'.ev = "return" /\ selectedFile # None) =>
          /\ UNCHANGED <<searchMode, query, matchingFiles, selectedIndex, selectedFile>>
          /\ InputAcceptsText' = InputAcceptsText]_vars

\* C17: the query input accepts text in every state of the running program.
C17_InputNeverBlocked == ~crashed => InputAcceptsText

\* The file whose load set the content
LoadedFile == FileLines(content.file[1])

\* C13: a load without a query term keeps exactly the first min(n, 100) lines
\* of a file of n lines, and marks truncation if and only if n > 100.
C13_CapAndTruncationMarker ==
    (last.ev = "loadClose" /\ content.term = None) =>
        /\ content.lines = SubSeq(LoadedFile, 1, Min(Len(LoadedFile), MAX_LINES))
        /\ content.marker <=> Len(LoadedFile) > MAX_LINES

\* C14: a load with a query term whose first match is on line m keeps exactly
\* the lines max(0, m - 20) .. min(n - 1, m + 20) of the file.
C14_SymmetricRadiusRetention ==
    (last.ev = "loadClose" /\ FirstMatchIndex(LoadedFile, content.term) # None) =>
        LET m == FirstMatchIndex(LoadedFile, content.term)[1]
        IN  content.lines = SubSeq(LoadedFile, Max(0, m - contextLines) + 1,
                                   Min(Len(LoadedFile) - 1, m + contextLines) + 1)

\* C15: a failed read sets the content to the sentinel, nothing propagates, and
\* mode, Query, ResultList, SelectedIndex and SelectedFile stay as they were.
C15_ReadErrorSentinel ==
    /\ [](last.ev = "loadError" =>
            /\ ~crashed
            /\ content.kind = "unable"
            /\ ContentLines(content) = <<UnableText>>)
    /\ [][last'.ev = "loadError" =>
            UNCHANGED <<searchMode, query, matchingFiles, selectedIndex, selectedFile>>]_vars

C15_Witness ==
    /\ last.ev = "loadError"
    /\ content.kind = "unable"
    /\ selectedFile = Some(PathY)
    /\ Len(matchingFiles) = 2

\* C16: when highlighting fails at the end of a load, the content is the
\* unhighlighted text read by that load, and nothing propagates.
C16_HighlightFallback ==
    (last.ev = "loadClose" /\ last.failed) =>
        /\ ~crashed
        /\ content.kind = "raw"
        /\ content.file = selectedFile
        /\ content.term = CurrentTerm
        /\ content.lines = FileLines(selectedFile[1])
        /\ ~content.marker

C16_Witness ==
    /\ last.ev = "loadClose"
    /\ last.failed
    /\ last.flag
    /\ content.kind = "raw"
    /\ content.file = Some(PathY)

\* C18: after a completed load MatchLineIndex is the 0-based index of the first
\* line of the file whose lower-case form holds the lower-case term, and absent
\* when there is no term or no such line.
C18_MatchLineIndexIsFirstMatch ==
    last.ev = "loadClose" =>
        matchingLineIndex = FirstMatchIndex(LoadedFile, content.term)

\* The lines handed to the window calculator and the window it rendered
Buffer == ContentLines(content)
Window == shown[1]

\* C19: the window has at most 40 lines, is a run of buffer lines, has the
\* prefix marker exactly when it does not start at buffer index 0 and the suffix
\* marker exactly when it does not end at the last index; without a match the
\* content is returned whole with no prefix marker.
C19_WindowWithinLimit ==
    last.ev = "loadClose" =>
        IF matchingLineIndex = None
        THEN Window.lines = Buffer /\ ~Window.prefix
        ELSE /\ Len(Window.lines) >= 1
             /\ Len(Window.lines) <= visibleLines
             /\ \E s \in 0..(Len(Buffer) - 1) :
                   /\ Window.lines = SubSeq(Buffer, s + 1, s + Len(Window.lines))
                   /\ Window.prefix <=> s > 0
                   /\ Window.suffix <=> s + Len(Window.lines) < Len(Buffer)

C19_Witness ==
    /\ last.ev = "loadClose"
    /\ matchingLineIndex # None
    /\ Len(Window.lines) = visibleLines
    /\ Window.prefix
    /\ Window.suffix

\* C20: with a buffer of L >= 40 lines and a match index m in [0, L - 1] the
\* window starts at max(0, m - 20) clamped to [0, L - 40] and has 40 lines.
C20_WindowAlwaysFull ==
    (/\ last.ev = "loadClose"
     /\ matchingLineIndex # None
     /\ Len(Buffer) >= visibleLines
     /\ matchingLineIndex[1] <= Len(Buffer) - 1) =>
        LET s == Min(Max(0, matchingLineIndex[1] - 20), Len(Buffer) - visibleLines)
        IN  Window.lines = SubSeq(Buffer, s + 1, s + visibleLines)

\* The position in the buffer (0-based) of the file's first matching line
MatchPosition ==
    (CHOOSE p \in 1..Len(Buffer) : Buffer[p] = LoadedFile[matchingLineIndex[1] + 1]) - 1

\* C21: the window is centred on the position of the first matching line in
\* the retained buffer: it starts at buffer index max(0, p - 20).
C21_WindowCentredOnBufferPosition ==
    (/\ last.ev = "loadClose"
     /\ content.kind = "highlighted"
     /\ matchingLineIndex # None) =>
        Window.lines[1] = Buffer[Max(0, MatchPosition - 20) + 1]

\* C22: the number of lines held in the buffer never exceeds a constant that
\* does not depend on the length of the file (the cap plus the context radius).
C22_BufferBounded ==
    Len(content.lines) <= MAX_LINES + contextLines

C22_Witness ==
    /\ last.ev = "loadClose"
    /\ Len(LoadedFile) > MAX_LINES + contextLines
    /\ matchingLineIndex # None
    /\ Len(content.lines) = MAX_LINES + contextLines

\* C24: after a load of the current file and term has ended - highlighted, in
\* the fallback, or in a read error - matchingLineIndex is the first-match
\* index of that load (absent after a read error or without a match).
C24_MatchIndexOfSameLoad ==
    /\ last.ev = "loadClose" =>
          matchingLineIndex = FirstMatchIndex(FileLines(selectedFile[1]), CurrentTerm)
    /\ last.ev = "loadError" => matchingLineIndex = None

\* C25: the lines retained by a load are one contiguous range of the file's
\* lines, in file order.
C25_RetainedLinesContiguous ==
    last.ev = "loadClose" =>
        \E s \in 0..(Len(LoadedFile) - Len(content.lines)) :
            content.lines = SubSeq(LoadedFile, s + 1, s + Len(content.lines))

\* C26: SelectedIndex is never negative.
C26_SelectedIndexNonNegative == selectedIndex >= 0

----------------------------------------------------------------------------
(* Fair completion of the backends: a spawned fzf or rg process that can    *)
(* close eventually does.                                                   *)

SpecFair == Spec /\ WF_vars(FzfClose) /\ WF_vars(RgClose)

\* The step is a query change
TypeStep == last'.ev = "type"

\* No request is in flight
Quiescent == inflight = <<>>

====
